---- MODULE Spec2Model ----
(***************************************************************************)
(* Codele backend: content scheduling, batch generation, admin moves and   *)
(* the public read handlers, modelled as a state machine over the two      *)
(* MongoDB collections (daily_problems, weekly_themes).                    *)
(*                                                                         *)
(* A Python `date` is the number of days since Epoch; a date_key (the _id  *)
(* of a DailyProblem) is the triple <<year, month, day>> that the string   *)
(* "YYYY-MM-DD" spells, compared lexicographically like the zero-padded    *)
(* string.                                                                 *)
(***************************************************************************)
EXTENDS Integers, Sequences, FiniteSets, TLC

VARIABLES problems, themes, gb, mv, ed, plan, seq, rd, rl

vars == <<problems, themes, gb, mv, ed, plan, seq, rd, rl>>

(* ------------------------------ bounds -------------------------------- *)

\* last day (since Epoch) the clock shows and an explicit start date names
MaxDay == 1
\* largest batch size requested
MaxCount == 2
\* largest batch size requested of a plan's batch, and of the batch generated
\* beside the admin's handlers
MaxPlanCount == 1
\* batches in one plan
MaxBatches == 2
\* largest count of the batches that exercise the difficulty cycle
MaxCycleCount == 14
\* generate_batch calls made one after another without a start date
MaxSeq == 3
Workers == {1, 2}

\* the two move handlers: POST /editor/{date_key}/move and POST /api/move
Movers == {"form", "ajax"}

(* --------------------------- date utilities --------------------------- *)

Epoch == <<2026, 2, 27>>

IsLeap(y) == (y % 4 = 0 /\ y % 100 # 0) \/ y % 400 = 0

DaysInMonth(y, m) ==
    IF m = 2 THEN (IF IsLeap(y) THEN 29 ELSE 28)
    ELSE IF m \in {4, 6, 9, 11} THEN 30 ELSE 31

\* date + timedelta(days=1), on the fields of the date
NextDay(k) ==
    IF k[3] < DaysInMonth(k[1], k[2]) THEN <<k[1], k[2], k[3] + 1>>
    ELSE IF k[2] < 12 THEN <<k[1], k[2] + 1, 1>>
    ELSE <<k[1] + 1, 1, 1>>

RECURSIVE strftime(_)
\* date.strftime("%Y-%m-%d") of the date n days after Epoch
strftime(n) == IF n <= 0 THEN Epoch ELSE NextDay(strftime(n - 1))

\* the dates the model ever names: every start date plus every batch length
Horizon == MaxDay + (MaxSeq + 2) * (MaxCount + 1)

IsValidKey(k) ==
    /\ Len(k) = 3
    /\ k[2] \in 1..12
    /\ k[3] \in 1..DaysInMonth(k[1], k[2])

ValueError == -1

\* datetime.strptime(k, "%Y-%m-%d").date(): the date, or ValueError
strptime(k) ==
    IF IsValidKey(k) /\ \E n \in 0..Horizon : strftime(n) = k
    THEN CHOOSE n \in 0..Horizon : strftime(n) = k
    ELSE ValueError

\* string order of two date keys
KeyLess(a, b) ==
    \/ a[1] < b[1]
    \/ a[1] = b[1] /\ a[2] < b[2]
    \/ a[1] = b[1] /\ a[2] = b[2] /\ a[3] < b[3]

KeyLeq(a, b) == a = b \/ KeyLess(a, b)

(* ------------------------------ the store ----------------------------- *)

Range(s) == {s[i] : i \in DOMAIN s}

Ids(ps) == {ps[i].id : i \in DOMAIN ps}

\* a store without a unique index on _id
DupKeyNever(ps, key) == FALSE

\* DailyProblem.id is the collection's _id: an insert of an _id that is
\* present raises DuplicateKeyError
DupKey(ps, key) == key \in Ids(ps)

\* DailyProblem.get(key) is not None
Has(ps, key) == \E i \in DOMAIN ps : ps[i].id = key

\* DailyProblem.get(key)
Get(ps, key) == ps[CHOOSE i \in DOMAIN ps : ps[i].id = key]

\* a delete that removes nothing
DeleteNothing(ps, key) == ps

\* problem.delete(): delete_one({_id: key})
Delete(ps, key) == SelectSeq(ps, LAMBDA r : r.id # key)

(* ------------------------- Slot Scheduler ----------------------------- *)

DIFFICULTY_CYCLE == <<"Easy", "Easy", "Medium", "Medium", "Hard", "Hard", "Medium">>

\* a sequence that starts at the cycle's second entry
get_difficulty_sequence_shifted(count) ==
    [i \in 1..count |-> DIFFICULTY_CYCLE[(i % Len(DIFFICULTY_CYCLE)) + 1]]

\* [DIFFICULTY_CYCLE[i % len(DIFFICULTY_CYCLE)] for i in range(count)]
get_difficulty_sequence(count) ==
    [i \in 1..count |-> DIFFICULTY_CYCLE[((i - 1) % Len(DIFFICULTY_CYCLE)) + 1]]

\* the field name of sort=[("-_id", -1)]: a (name, direction) tuple reaches
\* the server as written, so the name is "-_id"
LatestSortKey == "-_id"

\* the field name of sort=[("-generated_at", -1)]
RecentSortKey == "-generated_at"

\* find_all(sort=[(key, -1)], limit=1): the documents the server may return
\* first. Documents without the sort field all compare equal, and the server
\* returns equal documents in any order.
FirstDescending(ps, key) ==
    IF key = "_id"
    THEN {r \in Range(ps) : \A q \in Range(ps) : KeyLeq(q.id, r.id)}
    ELSE Range(ps)

NoDate == -2

\* the dates _find_next_open_date() may return (ValueError: strptime raised)
_find_next_open_date(ps, now) ==
    IF ps = <<>> THEN {now}
    ELSE {IF strptime(r.id) = ValueError THEN ValueError ELSE strptime(r.id) + 1 :
            r \in FirstDescending(ps, LatestSortKey)}

(* ------------------------ Theme Range Registry ------------------------ *)

RecentLimit == 10

Min(a, b) == IF a < b THEN a ELSE b

RECURSIVE Ascending(_)
\* the members of a set of numbers, smallest first
Ascending(S) ==
    IF S = {} THEN <<>>
    ELSE LET m == CHOOSE x \in S : \A y \in S : x <= y
         IN  <<m>> \o Ascending(S \ {m})

\* find_all(sort=[(key, -1)], limit=limit) on weekly_themes: the positions
\* (in generation order) of the documents returned. With generated_at as the
\* key these are the latest `limit`; with a key no document has, any `limit`
\* of them (listed here by position; the order of the list is not used).
RecentThemeDocs(ts, key, limit) ==
    LET n == Len(ts)
        k == Min(n, limit)
    IN  IF key = "generated_at"
        THEN {[i \in 1..k |-> n + 1 - i]}
        ELSE {Ascending(S) : S \in {T \in SUBSET (1..n) : Cardinality(T) = k}}

\* what PickWeeklyTheme may answer
PickerOutputs == {"Arrays", " Trees "}

\* str.strip()
Strip(s) == IF s = " Trees " THEN "Trees" ELSE IF s = " " THEN "" ELSE s

\* titles the generator gives its drafts
Titles == {"Two Sum"}

(* ---------------------------- generate_batch -------------------------- *)

\* the locals of one generate_batch call: start_date is the parameter, then
\* the resolved date; chosen is the forced theme, then the chosen one; hint is
\* recent_theme_names (picked: the picker was asked)
GbIdle ==
    [pc |-> "idle", start_date |-> NoDate, count |-> 0, chosen |-> "",
     hint |-> <<>>, picked |-> FALSE, built |-> <<>>, ins |-> 0, err |-> ""]

\* a call that goes from its start date straight to the store
AfterSlotToInsert(r, d) == [r EXCEPT !.start_date = d, !.pc = "insert"]

\* after step 1: a forced theme is taken at once, else the picker is asked
AfterSlot(r, d) ==
    [r EXCEPT !.start_date = d, !.pc = IF r.chosen # "" THEN "generate" ELSE "theme"]

Failed(r, step) == [r EXCEPT !.pc = "failed", !.err = step]

\* the call's locals up to its first await: an explicit start date needs no
\* query, and a forced theme no picker
Entered(start, count, theme) ==
    LET r == [GbIdle EXCEPT !.start_date = start, !.count = count,
                             !.chosen = theme]
    IN  IF start = NoDate THEN [r EXCEPT !.pc = "slot"] ELSE AfterSlot(r, start)

\* generate_batch(start_date, count, theme) is called
GenerateBatchCall(w, start, count, theme) ==
    /\ gb[w].pc = "idle"
    /\ gb' = [gb EXCEPT ![w] = Entered(start, count, theme)]
    /\ UNCHANGED <<problems, themes, mv, ed, plan, seq, rd, rl>>

\* 1. start_date = await _find_next_open_date(), utcnow() being day `now`;
\* or the query raises
ResolveSlot(w) ==
    /\ gb[w].pc = "slot"
    /\ \/ \E now \in 0..MaxDay : \E d \in _find_next_open_date(problems, now) :
            gb' = [gb EXCEPT ![w] =
                     IF d = ValueError THEN Failed(@, "slot") ELSE AfterSlot(@, d)]
       \/ gb' = [gb EXCEPT ![w] = Failed(@, "slot")]
    /\ UNCHANGED <<problems, themes, mv, ed, plan, seq, rd, rl>>

\* 2. _pick_theme(None): the recent themes are read and the picker answers
PickTheme(w) ==
    /\ gb[w].pc = "theme"
    /\ \E ix \in RecentThemeDocs(themes, RecentSortKey, RecentLimit) :
         LET names == [i \in DOMAIN ix |-> themes[ix[i]].theme]
         IN  \/ \E out \in PickerOutputs :
                  gb' = [gb EXCEPT ![w] =
                           [@ EXCEPT !.hint = names, !.picked = TRUE,
                                     !.chosen = Strip(out), !.pc = "generate"]]
             \/ gb' = [gb EXCEPT ![w] =
                         Failed([@ EXCEPT !.hint = names, !.picked = TRUE], "theme")]
    /\ UNCHANGED <<problems, themes, mv, ed, plan, seq, rd, rl>>

\* _build_problems(batch, start_date, count) for a batch of m drafts titled t
_build_problems(m, t, start_date, count) ==
    LET difficulties == get_difficulty_sequence(count)
    IN  [i \in 1..m |->
           [id |-> strftime(start_date + (i - 1)), title |-> t,
            difficulty |-> difficulties[i]]]

\* 3-5. the titles are read, the generator answers m drafts (or fails), and
\* the documents are built: difficulties[i] raises IndexError when m > count
Generate(w) ==
    /\ gb[w].pc = "generate"
    /\ \/ \E m \in 0..(gb[w].count + 1), t \in Titles :
            LET r == gb[w]
            IN  gb' = [gb EXCEPT ![w] =
                         IF m > r.count THEN Failed(r, "build")
                         ELSE [r EXCEPT !.built =
                                          _build_problems(m, t, r.start_date, r.count),
                                        !.pc = "insert"]]
       \/ gb' = [gb EXCEPT ![w] = Failed(@, "generate")]
    /\ UNCHANGED <<problems, themes, mv, ed, plan, seq, rd, rl>>

\* 6. DailyProblem.insert_many(problems): ordered, one document at a time,
\* stopping at the first DuplicateKeyError; an empty list is refused
InsertNext(w) ==
    /\ gb[w].pc = "insert"
    /\ LET r == gb[w]
       IN  IF r.built = <<>> \/ DupKey(problems, r.built[r.ins + 1].id)
           THEN /\ gb' = [gb EXCEPT ![w] = Failed(@, "insert")]
                /\ UNCHANGED <<problems, mv, ed, plan, seq, rd, rl>>
           ELSE /\ problems' = Append(problems, r.built[r.ins + 1])
                /\ gb' = [gb EXCEPT ![w] =
                            [@ EXCEPT !.ins = @ + 1,
                                      !.pc = IF r.ins + 1 = Len(r.built)
                                             THEN "theme_insert" ELSE "insert"]]
    /\ UNCHANGED <<themes, mv, ed, plan, seq, rd, rl>>

\* the WeeklyTheme of a batch
theme_record(r) ==
    [theme |-> r.chosen, start_date |-> strftime(r.start_date),
     end_date |-> strftime(r.start_date + (r.count - 1)),
     count |-> Len(r.built)]

\* 7. theme_record.insert(): stored, or the store raises
InsertTheme(w) ==
    /\ gb[w].pc = "theme_insert"
    /\ \/ /\ themes' = Append(themes, theme_record(gb[w]))
          /\ gb' = [gb EXCEPT ![w] = [@ EXCEPT !.pc = "done"]]
       \/ /\ gb' = [gb EXCEPT ![w] = Failed(@, "theme_insert")]
          /\ UNCHANGED <<themes, mv, ed, plan, seq, rd, rl>>
    /\ UNCHANGED <<problems, mv, ed, plan, seq, rd, rl>>

(* ------------------------------ admin --------------------------------- *)

NoProblem == [id |-> <<>>, title |-> "", difficulty |-> ""]

\* a key that matches the format and names no calendar day
BadKey == <<2026, 2, 30>>

\* the target dates a move request names (<<>>: the field is empty)
MoveTargets == {strftime(n) : n \in 0..(MaxDay + 1)} \cup {BadKey, <<>>}

MvIdle ==
    [pc |-> "idle", from |-> <<>>, to |-> <<>>, problem |-> NoProblem, status |-> 0]

\* the handler raises HTTPException(status): its locals are gone
Rejected(status) == [MvIdle EXCEPT !.pc = "rejected", !.status = status]

\* DailyProblem(id=new_date, **data) of the problem read
Rekeyed(p, key) == [p EXCEPT !.id = key]

\* POST /editor/{date_key}/move (form) or POST /api/move (ajax) arrives; the
\* ajax handler refuses an empty field before it reads anything
MoveCall(m, from, to) ==
    /\ mv[m].pc = "idle"
    /\ mv' = [mv EXCEPT ![m] =
                IF m = "ajax" /\ (from = <<>> \/ to = <<>>)
                THEN Rejected(400)
                ELSE [@ EXCEPT !.pc = "get", !.from = from, !.to = to]]
    /\ UNCHANGED <<problems, themes, gb, ed, plan, seq, rd, rl>>

\* problem = await DailyProblem.get(from): 404 when there is none; the form
\* handler then validates new_date with strptime (400)
MoveGet(m) ==
    /\ mv[m].pc = "get"
    /\ LET r == mv[m]
       IN  mv' = [mv EXCEPT ![m] =
                    IF ~Has(problems, r.from) THEN Rejected(404)
                    ELSE IF m = "form" /\ strptime(r.to) = ValueError
                    THEN Rejected(400)
                    ELSE [r EXCEPT !.pc = "check", !.problem = Get(problems, r.from)]]
    /\ UNCHANGED <<problems, themes, gb, ed, plan, seq, rd, rl>>

\* existing = await DailyProblem.get(to): 409 when the target is taken
MoveCheck(m) ==
    /\ mv[m].pc = "check"
    /\ mv' = [mv EXCEPT ![m] =
                IF Has(problems, @.to) THEN Rejected(409)
                ELSE [@ EXCEPT !.pc = "insert"]]
    /\ UNCHANGED <<problems, themes, gb, ed, plan, seq, rd, rl>>

\* await new_problem.insert(): DuplicateKeyError is not handled (500)
MoveInsert(m) ==
    /\ mv[m].pc = "insert"
    /\ LET r == mv[m]
       IN  IF DupKey(problems, r.to)
           THEN /\ mv' = [mv EXCEPT ![m] = [r EXCEPT !.pc = "failed", !.status = 500]]
                /\ UNCHANGED problems
           ELSE /\ problems' = Append(problems, Rekeyed(r.problem, r.to))
                /\ mv' = [mv EXCEPT ![m] = [r EXCEPT !.pc = "delete"]]
    /\ UNCHANGED <<themes, gb, ed, plan, seq, rd, rl>>

\* await problem.delete()
MoveDelete(m) ==
    /\ mv[m].pc = "delete"
    /\ problems' = Delete(problems, mv[m].from)
    /\ mv' = [mv EXCEPT ![m] = [@ EXCEPT !.pc = "done", !.status = 200]]
    /\ UNCHANGED <<themes, gb, ed, plan, seq, rd, rl>>

EdIdle == [pc |-> "idle", problem |-> NoProblem, status |-> 0]

\* POST /editor/{date_key}/save: problem = await DailyProblem.get(date_key),
\* 404 when there is none, else the form's fields are set on it
SaveGet(key, title, difficulty) ==
    /\ ed.pc = "idle"
    /\ ed' = IF ~Has(problems, key)
             THEN [ed EXCEPT !.pc = "rejected", !.status = 404]
             ELSE [ed EXCEPT !.pc = "save",
                             !.problem = [Get(problems, key) EXCEPT
                                            !.title = title,
                                            !.difficulty = difficulty]]
    /\ UNCHANGED <<problems, themes, gb, mv, plan, seq, rd, rl>>

\* Document.save(): the document of that _id is replaced where it is, or
\* inserted when it is gone (upsert)
Upsert(ps, p) ==
    IF Has(ps, p.id)
    THEN [i \in DOMAIN ps |-> IF ps[i].id = p.id THEN p ELSE ps[i]]
    ELSE Append(ps, p)

\* await problem.save()
SaveWrite ==
    /\ ed.pc = "save"
    /\ problems' = Upsert(problems, ed.problem)
    /\ ed' = [EdIdle EXCEPT !.pc = "done", !.status = 303]
    /\ UNCHANGED <<themes, gb, mv, plan, seq, rd, rl>>

\* POST /editor/{date_key}/delete: get, then delete when there is one
delete_problem(key) ==
    /\ Has(problems, key)
    /\ problems' = Delete(problems, key)
    /\ UNCHANGED <<themes, gb, mv, ed, plan, seq, rd, rl>>

(* ---------------------- POST /api/generate (plan) ---------------------- *)

PlanIdle == [pc |-> "idle", n |-> 0, i |-> 0, results |-> <<>>, total |-> 0]

\* the result entry of batch k: {"batch": k, **result} of a summary, or
\* {"batch": k, "error": ...}. `written` is not part of the response: it
\* records how many documents the batch inserted.
SummaryEntry(k, r) ==
    [batch |-> k, error |-> "", theme |-> r.chosen, problems_created |-> Len(r.built),
     written |-> r.ins]

ErrorEntry(k, step, written) ==
    [batch |-> k, error |-> step, theme |-> "", problems_created |-> 0,
     written |-> written]

\* a handler that reports every batch as a summary
ResultEntryAlwaysSummary(k, r) == SummaryEntry(k, r)

\* try: result = await generate_batch(...) except Exception
ResultEntry(k, r) ==
    IF r.pc = "done" THEN SummaryEntry(k, r) ELSE ErrorEntry(k, r.err, r.ins)

\* the request arrives with n batches
PlanCall(n) ==
    /\ plan.pc = "idle"
    /\ plan' = [plan EXCEPT !.pc = "loop", !.n = n]
    /\ UNCHANGED <<problems, themes, gb, mv, ed, seq, rd, rl>>

\* the loop reads batch_def i+1. is_str: start_date is a JSON string (key);
\* strptime raises TypeError on anything else, which `except ValueError` lets
\* through: the request ends with an unhandled exception. A string that is
\* no date gives an error entry. Else generate_batch is entered with the
\* theme, or None when theme.strip() is empty.
PlanBatch(is_str, key, count, theme) ==
    /\ plan.pc = "loop"
    /\ plan.i < plan.n
    /\ IF ~is_str
       THEN /\ plan' = [plan EXCEPT !.pc = "crashed"]
            /\ gb' = [gb EXCEPT ![1] = GbIdle]
       ELSE IF strptime(key) = ValueError
       THEN /\ plan' = [plan EXCEPT !.i = @ + 1,
                          !.results = Append(@, ErrorEntry(plan.i + 1, "date", 0))]
            /\ gb' = [gb EXCEPT ![1] = GbIdle]
       ELSE /\ plan' = [plan EXCEPT !.pc = "await"]
            /\ gb' = [gb EXCEPT ![1] =
                        Entered(strptime(key), count,
                                IF Strip(theme) # "" THEN theme ELSE "")]
    /\ UNCHANGED <<problems, themes, mv, ed, seq, rd, rl>>

\* generate_batch returned or raised: the entry is appended
PlanCollect ==
    /\ plan.pc = "await"
    /\ gb[1].pc \in {"done", "failed"}
    /\ plan' = [plan EXCEPT !.pc = "loop", !.i = @ + 1,
                  !.results = Append(@, ResultEntry(plan.i + 1, gb[1]))]
    /\ UNCHANGED <<problems, themes, gb, mv, ed, seq, rd, rl>>

RECURSIVE SumCreated(_)
\* sum(r.get("problems_created", 0) for r in results)
SumCreated(rs) ==
    IF rs = <<>> THEN 0 ELSE rs[1].problems_created + SumCreated(Tail(rs))

\* the loop is over: {"results": results, "total_created": total}
PlanReturn ==
    /\ plan.pc = "loop"
    /\ plan.i = plan.n
    /\ plan' = [plan EXCEPT !.pc = "returned", !.total = SumCreated(plan.results)]
    /\ UNCHANGED <<problems, themes, gb, mv, ed, seq, rd, rl>>

\* a ThemeRange of an earlier generation
LegacyTheme ==
    [theme |-> "Legacy", start_date |-> strftime(0), end_date |-> strftime(0),
     count |-> 1]

(* --------------------- sequential generation -------------------------- *)

\* generate_batch(None, count, theme) once the call before it has ended
AutoCall(count, theme) ==
    /\ seq < MaxSeq
    /\ gb[1].pc \in {"idle", "done", "failed"}
    /\ seq' = seq + 1
    /\ gb' = [gb EXCEPT ![1] = Entered(NoDate, count, theme)]
    /\ UNCHANGED <<problems, themes, mv, ed, plan, rd, rl>>

(* --------------------------- read handlers ---------------------------- *)

RdIdle == [op |-> "", today |-> NoDate, status |-> 0, body |-> NoProblem,
           fallback |-> FALSE, original_date |-> <<>>, next_open |-> NoDate,
           date |-> <<>>, month |-> <<>>, error |-> "", days |-> <<>>,
           listed |-> <<>>, cells |-> <<>>, colors |-> <<>>]

\* the modulus the digests below are reduced by: a multiple of every
\* len(all_problems) up to 10, so that date_hash % len is the digest's
HashModulus == 8 * 9 * 5 * 7

\* int(hashlib.sha256(today_key.encode()).hexdigest(), 16), reduced modulo
\* HashModulus (the SHA-256 digests of the keys' strings)
date_hash(key) ==
    CASE
       key = <<2026, 2, 27>> -> 94
    [] key = <<2026, 2, 28>> -> 1741
    [] key = <<2026, 3, 1>> -> 395
    [] key = <<2026, 3, 2>> -> 441
    [] key = <<2026, 3, 3>> -> 1954
    [] key = <<2026, 3, 4>> -> 620
    [] key = <<2026, 3, 5>> -> 2429
    [] key = <<2026, 3, 6>> -> 208

\* an index one past the digest's
FallbackIndexShifted(key, n) == (date_hash(key) + 1) % n

\* index = date_hash % len(all_problems)
FallbackIndex(key, n) == date_hash(key) % n

\* a handler that returns its fallback without the annotation
TodayLegacyUnflagged(now) ==
    /\ LET today_key == strftime(now)
       IN  rd' =
             IF Has(problems, today_key)
             THEN [RdIdle EXCEPT !.op = "today_legacy", !.today = now,
                                 !.status = 200, !.body = Get(problems, today_key)]
             ELSE IF problems = <<>>
             THEN [RdIdle EXCEPT !.op = "today_legacy", !.today = now, !.status = 404]
             ELSE [RdIdle EXCEPT !.op = "today_legacy", !.today = now,
                     !.status = 200,
                     !.body = problems[(date_hash(today_key) % Len(problems)) + 1]]
    /\ UNCHANGED <<problems, themes, gb, mv, ed, plan, seq, rl>>

\* GET /api/v1/problem/today of src/routers/problems.py on day `now`
TodayLegacy(now) ==
    /\ LET today_key == strftime(now)
       IN  rd' =
             IF Has(problems, today_key)
             THEN [RdIdle EXCEPT !.op = "today_legacy", !.today = now,
                                 !.status = 200, !.body = Get(problems, today_key)]
             ELSE IF problems = <<>>
             THEN [RdIdle EXCEPT !.op = "today_legacy", !.today = now, !.status = 404]
             ELSE [RdIdle EXCEPT !.op = "today_legacy", !.today = now,
                     !.status = 200,
                     !.body = problems[FallbackIndex(today_key, Len(problems)) + 1],
                     !.fallback = TRUE, !.original_date = today_key]
    /\ UNCHANGED <<problems, themes, gb, mv, ed, plan, seq, rl>>

\* GET /api/v1/problem/today of src/api/routers/problems.py on day `now`
TodayApi(now) ==
    /\ LET today_key == strftime(now)
       IN  rd' =
             IF ~Has(problems, today_key)
             THEN [RdIdle EXCEPT !.op = "today_api", !.today = now, !.status = 404]
             ELSE [RdIdle EXCEPT !.op = "today_api", !.today = now, !.status = 200,
                                 !.body = Get(problems, today_key)]
    /\ UNCHANGED <<problems, themes, gb, mv, ed, plan, seq, rl>>

\* GET /generate on day `now`: next_open = await _find_next_open_date()
generate_page(now) ==
    /\ \E d \in _find_next_open_date(problems, now) :
         rd' = [RdIdle EXCEPT !.op = "generate_page", !.today = now,
                              !.status = IF d = ValueError THEN 500 ELSE 200,
                              !.next_open = d]
    /\ UNCHANGED <<problems, themes, gb, mv, ed, plan, seq, rl>>

\* the stores of at most n documents with the given keys, one per key, in
\* any natural order
Stores(keys, n) ==
    UNION {{ps \in [1..k -> [id : keys, title : Titles, difficulty : {"Easy"}]] :
              \A i, j \in 1..k : i # j => ps[i].id # ps[j].id} : k \in 0..n}

(* ---------------------------- rate limiter ----------------------------- *)

\* RateLimitMiddleware(rate_limit, window_seconds, protected_paths): the
\* parameters of the instance (api/main.py passes 10 requests and 60
\* seconds; dispatch is the same code for every value)
rate_limit == 2

window_seconds == 3

\* last second the clock shows
MaxTime == 4

\* a path is the sequence of the pieces of its string, so that
\* str.startswith is the prefix relation on sequences
protected_paths == {<<"/api/v1/problem">>}

Paths ==
    {<<"/api/v1/problem", "/today">>, <<"/api/v1/themes">>}

Clients == {"10.0.0.1", "10.0.0.2"}

\* a request without the X-Forwarded-For header
NoHeader == <<>>

\* the header's value, split at its commas
ForwardedFor == {NoHeader, <<"10.0.0.2", "10.0.0.1">>}

startswith(path, prefix) ==
    Len(path) >= Len(prefix) /\ SubSeq(path, 1, Len(prefix)) = prefix

_is_protected(path) ==
    IF protected_paths = {} THEN TRUE
    ELSE \E prefix \in protected_paths : startswith(path, prefix)

\* a window that forgets a request one second early
_clean_old_requests_early(ts, now) ==
    SelectSeq(ts, LAMBDA t : t > (now - window_seconds) + 1)

_clean_old_requests(ts, now) ==
    SelectSeq(ts, LAMBDA t : t > now - window_seconds)

client_ip(host, forwarded) ==
    IF forwarded # NoHeader THEN Strip(forwarded[1]) ELSE host

NoResponse == [status |-> 0, path |-> <<>>, client_ip |-> "", retry_after |-> 0]

\* requests is the middleware's _requests; forwarded is the history of the
\* protected requests handed on to the application, per client (not program
\* state); last is the response to the latest request
RlIdle ==
    [requests |-> [c \in Clients |-> <<>>], now |-> 0,
     forwarded |-> [c \in Clients |-> <<>>], last |-> NoResponse]

\* one request through the middleware, arriving when time.time() shows now
dispatch(path, host, forwarded, now) ==
    /\ now >= rl.now
    /\ LET ip == client_ip(host, forwarded)
           kept == _clean_old_requests(rl.requests[ip], now)
       IN  rl' = IF ~_is_protected(path)
                 THEN [rl EXCEPT !.now = now,
                          !.last = [status |-> 200, path |-> path,
                                    client_ip |-> "", retry_after |-> 0]]
                 ELSE IF Len(kept) >= rate_limit
                 THEN [rl EXCEPT !.now = now, !.requests[ip] = kept,
                          !.last = [status |-> 429, path |-> path, client_ip |-> ip,
                                    retry_after |->
                                        (window_seconds - (now - kept[1])) + 1]]
                 ELSE [rl EXCEPT !.now = now, !.requests[ip] = Append(kept, now),
                          !.forwarded[ip] = Append(@, now),
                          !.last = [status |-> 200, path |-> path, client_ip |-> ip,
                                    retry_after |-> 0]]
    /\ UNCHANGED <<problems, themes, gb, mv, ed, plan, seq, rd>>

Init ==
    /\ problems = <<>>
    /\ themes = <<>>
    /\ gb = [w \in Workers |-> GbIdle]
    /\ mv = [m \in Movers |-> MvIdle]
    /\ ed = EdIdle
    /\ plan = PlanIdle
    /\ seq = 0
    /\ rd = RdIdle
    /\ rl = RlIdle

Next ==
    \/ \E w \in Workers, start \in {NoDate} \cup 0..MaxDay, count \in 1..MaxCount,
          theme \in {"", "Graphs"} : GenerateBatchCall(w, start, count, theme)
    \/ \E w \in Workers : ResolveSlot(w)
    \/ \E w \in Workers : PickTheme(w)
    \/ \E w \in Workers : Generate(w)
    \/ \E w \in Workers : InsertNext(w)
    \/ \E w \in Workers : InsertTheme(w)

Spec == Init /\ [][Next]_vars

\* one generate_batch call beside the admin's moves, saves and deletes
NextAdmin ==
    \/ \E start \in 0..MaxDay, count \in 1..MaxPlanCount :
          GenerateBatchCall(1, start, count, "Graphs")
    \/ Generate(1)
    \/ InsertNext(1)
    \/ InsertTheme(1)
    \/ \E m \in Movers, from \in {strftime(n) : n \in 0..MaxDay} \cup {<<>>},
          to \in MoveTargets : MoveCall(m, from, to)
    \/ \E m \in Movers : MoveGet(m)
    \/ \E m \in Movers : MoveCheck(m)
    \/ \E m \in Movers : MoveInsert(m)
    \/ \E m \in Movers : MoveDelete(m)
    \/ \E key \in {strftime(n) : n \in 0..MaxDay} : SaveGet(key, "Edited", "Hard")
    \/ SaveWrite
    \/ \E key \in {strftime(n) : n \in 0..(MaxDay + 1)} : delete_problem(key)

SpecAdmin == Init /\ [][NextAdmin]_vars

\* the store of an installation that has generated before: no problems are
\* left, and none or RecentLimit theme records are
InitPlan ==
    /\ problems = <<>>
    /\ \E n0 \in {0, RecentLimit} : themes = [i \in 1..n0 |-> LegacyTheme]
    /\ gb = [w \in Workers |-> GbIdle]
    /\ mv = [m \in Movers |-> MvIdle]
    /\ ed = EdIdle
    /\ plan = PlanIdle
    /\ seq = 0
    /\ rd = RdIdle
    /\ rl = RlIdle

\* one POST /api/generate: the batches run one after another
NextPlan ==
    \/ \E n \in 1..MaxBatches : PlanCall(n)
    \/ \E is_str \in BOOLEAN, key \in {strftime(n) : n \in 0..MaxDay} \cup {BadKey},
          count \in 1..MaxPlanCount, theme \in {"", " ", "Graphs"} :
          PlanBatch(is_str, key, count, theme)
    \/ PickTheme(1)
    \/ Generate(1)
    \/ InsertNext(1)
    \/ InsertTheme(1)
    \/ PlanCollect
    \/ PlanReturn

SpecPlan == InitPlan /\ [][NextPlan]_vars

\* generate_batch calls without a start date, one after another
NextAuto ==
    \/ \E count \in 1..MaxCount, theme \in {"", "Graphs"} : AutoCall(count, theme)
    \/ ResolveSlot(1)
    \/ PickTheme(1)
    \/ Generate(1)
    \/ InsertNext(1)
    \/ InsertTheme(1)

SpecAuto == Init /\ [][NextAuto]_vars

\* any store of a few problems, in any natural order
InitRead ==
    /\ problems \in Stores({strftime(n) : n \in 0..(MaxDay + 1)}, MaxDay + 2)
    /\ themes = <<>>
    /\ gb = [w \in Workers |-> GbIdle]
    /\ mv = [m \in Movers |-> MvIdle]
    /\ ed = EdIdle
    /\ plan = PlanIdle
    /\ seq = 0
    /\ rd = RdIdle
    /\ rl = RlIdle

\* the read requests, on any day
NextRead ==
    \/ \E now \in 0..MaxDay : TodayLegacy(now)
    \/ \E now \in 0..MaxDay : TodayApi(now)
    \/ \E now \in 0..MaxDay : generate_page(now)

SpecRead == InitRead /\ [][NextRead]_vars

(* ------------------------ public read handlers ------------------------ *)

\* a time-lock that lets tomorrow through
IsFutureLenient(requested, today) == requested > today + 1

\* if requested.date() > today.date()
IsFuture(requested, today) == requested > today

\* GET /api/v1/problem/{date} for the path segment `key` on day `now` (the
\* two routers' handlers differ in the field names of the body only): 400 when strptime raises, 403 when the date is after today,
\* then the lookup (404 or the problem)
get_problem_by_date(key, now) ==
    /\ LET requested == strptime(key)
           r == [RdIdle EXCEPT !.op = "by_date", !.today = now, !.date = key]
       IN  rd' =
             IF requested = ValueError THEN [r EXCEPT !.status = 400]
             ELSE IF IsFuture(requested, now) THEN [r EXCEPT !.status = 403]
             ELSE IF ~Has(problems, key) THEN [r EXCEPT !.status = 404]
             ELSE [r EXCEPT !.status = 200, !.body = Get(problems, key)]
    /\ UNCHANGED <<problems, themes, gb, mv, ed, plan, seq, rl>>

\* s without its i-th element
Remove(s, i) == SubSeq(s, 1, i - 1) \o SubSeq(s, i + 1, Len(s))

RECURSIVE SortByDate(_)
\* entries.sort(key=lambda e: e["date"]): ascending, equal keys in their order
SortByDate(s) ==
    IF s = <<>> THEN <<>>
    ELSE LET i == CHOOSE i \in DOMAIN s :
                    /\ \A j \in DOMAIN s : KeyLeq(s[i].id, s[j].id)
                    /\ \A j \in 1..(i - 1) : s[j].id # s[i].id
         IN  <<s[i]>> \o SortByDate(Remove(s, i))

\* DailyProblem.id >= f"{prefix}-01" and DailyProblem.id <= f"{prefix}-31"
InMonth(id, ym) ==
    KeyLeq(<<ym[1], ym[2], 1>>, id) /\ KeyLeq(id, <<ym[1], ym[2], 31>>)

\* a listing that filters nothing
ShownAlways(id, today_key) == TRUE

\* not (p.id > today)
Shown(id, today_key) == ~KeyLess(today_key, id)

\* the months a request names: <<year, month_num>> of "YYYY-MM"
Months == {<<2026, 2>>, <<2026, 3>>, <<2026, 13>>}

\* GET /api/v1/calendar?month=ym on day `now`
get_month_calendar(ym, now) ==
    /\ LET r == [RdIdle EXCEPT !.op = "calendar", !.today = now, !.month = ym,
                               !.status = 200]
           today == strftime(now)
       IN  rd' =
             IF ~(1 <= ym[2] /\ ym[2] <= 12)
             THEN [r EXCEPT !.error = "Invalid month format. Use YYYY-MM."]
             ELSE [r EXCEPT !.days =
                      SortByDate(SelectSeq(problems,
                          LAMBDA p : InMonth(p.id, ym) /\ Shown(p.id, today)))]
    /\ UNCHANGED <<problems, themes, gb, mv, ed, plan, seq, rl>>

\* no month filter
NoMonth == <<>>

\* next_month of get_themes: the first day of the month after ym
next_month(ym) ==
    IF ym[2] = 12 THEN <<ym[1] + 1, 1, 1>> ELSE <<ym[1], ym[2] + 1, 1>>

\* a listing without the base criterion
ThemeCriteriaNoBase(t, ym, today_key) ==
    ym # NoMonth =>
        /\ KeyLeq(<<ym[1], ym[2], 1>>, t.start_date)
        /\ KeyLess(t.start_date, next_month(ym))

\* criteria of get_themes: start_date <= today, and with a month filter
\* start_date >= m_start and start_date < next_month
ThemeCriteria(t, ym, today_key) ==
    /\ KeyLeq(t.start_date, today_key)
    /\ ym # NoMonth =>
        /\ KeyLeq(<<ym[1], ym[2], 1>>, t.start_date)
        /\ KeyLess(t.start_date, next_month(ym))

RECURSIVE SortByStartDesc(_)
\* themes.sort(key=lambda t: t.start_date or "", reverse=True): descending,
\* equal keys in their order
SortByStartDesc(s) ==
    IF s = <<>> THEN <<>>
    ELSE LET i == CHOOSE i \in DOMAIN s :
                    /\ \A j \in DOMAIN s : KeyLeq(s[j].start_date, s[i].start_date)
                    /\ \A j \in 1..(i - 1) : s[j].start_date # s[i].start_date
         IN  <<s[i]>> \o SortByStartDesc(Remove(s, i))

\* GET /api/v1/themes[?month=ym] on day `now`
get_themes(ym, now) ==
    /\ rd' = [RdIdle EXCEPT !.op = "themes", !.today = now, !.month = ym,
                !.status = 200,
                !.listed = SortByStartDesc(SelectSeq(themes,
                              LAMBDA t : ThemeCriteria(t, ym, strftime(now))))]
    /\ UNCHANGED <<problems, themes, gb, mv, ed, plan, seq, rl>>

\* the theme record of a batch of c problems from day a
ThemeOf(name, a, c) ==
    [theme |-> name, start_date |-> strftime(a),
     end_date |-> strftime(a + (c - 1)), count |-> c]

\* the weekly_themes collections of at most n records, in generation order
ThemeStores(names, days, n) ==
    UNION {[1..k -> {ThemeOf(nm, a, c) : nm \in names, a \in days, c \in 1..2}] :
             k \in 0..n}

\* any store of a few problems, or of a few theme records, past and future
\* (no handler of the public API reads both collections)
InitPublic ==
    /\ \/ /\ problems \in Stores({strftime(n) : n \in 0..(MaxDay + 1)}, MaxDay + 2)
          /\ themes = <<>>
       \/ /\ problems = <<>>
          /\ themes \in ThemeStores({"Graphs"}, 0..(MaxDay + 1), 2)
    /\ gb = [w \in Workers |-> GbIdle]
    /\ mv = [m \in Movers |-> MvIdle]
    /\ ed = EdIdle
    /\ plan = PlanIdle
    /\ seq = 0
    /\ rd = RdIdle
    /\ rl = RlIdle

\* the public API's requests, on any day
NextPublic ==
    \/ \E key \in {strftime(n) : n \in 0..(MaxDay + 1)} \cup {BadKey},
          now \in 0..MaxDay : get_problem_by_date(key, now)
    \/ \E ym \in Months, now \in 0..MaxDay : get_month_calendar(ym, now)
    \/ \E ym \in Months \cup {NoMonth}, now \in 0..MaxDay : get_themes(ym, now)

SpecPublic == InitPublic /\ [][NextPublic]_vars

(* --------------------------- admin calendar --------------------------- *)

CalendarLimit == 20

\* the field name of sort=[("-generated_at", -1)] in _get_calendar_data
CalendarSortKey == "-generated_at"

\* WeeklyTheme.find_all(sort=[(key, -1)], limit=limit).to_list(): the lists
\* the server may return, as positions in generation order. With generated_at
\* as the key this is the latest `limit`, newest first; with a key no document
\* has, any `limit` of them in any order.
ThemeDocsInOrder(ts, key, limit) ==
    LET n == Len(ts)
        k == Min(n, limit)
    IN  IF key = "generated_at"
        THEN {[i \in 1..k |-> n + 1 - i]}
        ELSE {f \in [1..k -> 1..n] : \A i, j \in 1..k : i # j => f[i] # f[j]}

THEME_COLORS ==
    <<"#d29922", "#58a6ff", "#3fb950", "#f85149",
      "#bc8cff", "#79c0ff", "#e3b341", "#56d364">>

\* color_idx when the loop first meets `name`: the distinct names before it
ColorIdx(L, name) ==
    LET first == CHOOSE i \in DOMAIN L :
                     L[i].theme = name /\ \A j \in 1..(i - 1) : L[j].theme # name
    IN  Cardinality({L[j].theme : j \in 1..(first - 1)})

\* theme_color_map after the loop over the themes read
theme_color_map(L) ==
    [name \in {L[i].theme : i \in DOMAIN L} |->
        THEME_COLORS[(ColorIdx(L, name) % Len(THEME_COLORS)) + 1]]

\* _find_theme_for_date(date_key) over the themes read (L, the documents at
\* positions ix): the first t with t.start_date <= date_key <= t.end_date
_find_theme_for_date(L, ix, date_key) ==
    LET hits == {i \in DOMAIN L :
                   KeyLeq(L[i].start_date, date_key) /\ KeyLeq(date_key, L[i].end_date)}
    IN  IF hits = {} THEN [theme |-> "", color |-> "", theme_id |-> 0]
        ELSE LET i == CHOOSE i \in hits : \A j \in hits : i <= j
             IN  [theme |-> L[i].theme, color |-> theme_color_map(L)[L[i].theme],
                  theme_id |-> ix[i]]

\* GET /?year=&month= : _get_calendar_data(year, month). cells is all_cells by
\* day (theme, color, theme_id: the document's position, 0 for None), listed
\* the themes read, colors theme_color_map
calendar_page(ym, now) ==
    /\ \E ix \in ThemeDocsInOrder(themes, CalendarSortKey, CalendarLimit) :
         LET L == [i \in DOMAIN ix |-> themes[ix[i]]]
         IN  rd' = [RdIdle EXCEPT !.op = "admin_calendar", !.today = now,
                       !.month = ym, !.status = 200,
                       !.listed = L,
                       !.colors = theme_color_map(L),
                       !.cells = [day \in 1..DaysInMonth(ym[1], ym[2]) |->
                                    _find_theme_for_date(L, ix, <<ym[1], ym[2], day>>)]]
    /\ UNCHANGED <<problems, themes, gb, mv, ed, plan, seq, rl>>

\* an installation with a few theme records
InitCalendar ==
    /\ problems = <<>>
    /\ themes \in ThemeStores({"Graphs", "Trees"}, 0..MaxDay, 2)
    /\ gb = [w \in Workers |-> GbIdle]
    /\ mv = [m \in Movers |-> MvIdle]
    /\ ed = EdIdle
    /\ plan = PlanIdle
    /\ seq = 0
    /\ rd = RdIdle
    /\ rl = RlIdle

\* the admin renders the calendar before, during and after one generate_batch
NextCalendar ==
    \/ \E ym \in {<<2026, 2>>, <<2026, 3>>}, now \in 0..MaxDay : calendar_page(ym, now)
    \/ \E start \in 0..MaxDay, count \in 1..MaxPlanCount :
          GenerateBatchCall(1, start, count, "Arrays")
    \/ Generate(1)
    \/ InsertNext(1)
    \/ InsertTheme(1)

SpecCalendar == InitCalendar /\ [][NextCalendar]_vars

(* ------------------------- difficulty cycle --------------------------- *)

\* one generate_batch of any count up to MaxCycleCount (0: an empty batch)
NextCycle ==
    \/ \E count \in 0..MaxCycleCount : GenerateBatchCall(1, 0, count, "Graphs")
    \/ Generate(1)
    \/ InsertNext(1)
    \/ InsertTheme(1)

SpecCycle == Init /\ [][NextCycle]_vars

(* --------------------------- racing moves ----------------------------- *)

\* the date every move of the race is aimed at
MoveTarget == strftime(MaxDay)

\* the two move handlers, each asked to move some problem to MoveTarget,
\* beside one generate_batch call
NextMove ==
    \/ \E m \in Movers, from \in {strftime(n) : n \in 0..(MaxDay + 1)} :
          MoveCall(m, from, MoveTarget)
    \/ \E m \in Movers : MoveGet(m)
    \/ \E m \in Movers : MoveCheck(m)
    \/ \E m \in Movers : MoveInsert(m)
    \/ \E m \in Movers : MoveDelete(m)
    \/ \E start \in 0..MaxDay, count \in 1..MaxPlanCount :
          GenerateBatchCall(1, start, count, "Graphs")
    \/ Generate(1)
    \/ InsertNext(1)
    \/ InsertTheme(1)

SpecMove == InitRead /\ [][NextMove]_vars

\* requests of two clients, directly and behind a proxy, as time passes
NextLimit ==
    \E path \in Paths, host \in Clients, forwarded \in ForwardedFor,
       now \in 0..MaxTime : dispatch(path, host, forwarded, now)

SpecLimit == Init /\ [][NextLimit]_vars

(* ------------------------------- claims ------------------------------- *)

\* the days a finished or running call targets: start .. start + count - 1
TargetDays(r) == r.start_date..(r.start_date + (r.count - 1))

BuiltIds(r) == {r.built[i].id : i \in DOMAIN r.built}

Finished(r) == r.pc \in {"done", "failed"}

\* the greatest date_key of a non-empty store
MaxKey(ps) == CHOOSE k \in Ids(ps) : \A q \in Ids(ps) : KeyLeq(q, k)

\* C1: in every reachable state, whatever generate_batch, the two move
\* handlers, edit-save and delete have done and however they interleaved, no
\* two stored problems have the same date_key.
C1_UniqueDateKey ==
    \A i, j \in DOMAIN problems : i # j => problems[i].id # problems[j].id

\* C1 witness: a move passed its "target is empty" check, another writer took
\* the target, and the move's insert was refused
C1_Witness ==
    \E m \in Movers : mv[m].pc = "failed" /\ Len(problems) >= 2

\* C2: whenever a batch of a plan asks the picker, the hint it passes holds
\* the theme of every earlier batch of the plan that succeeded.
C2_HintHoldsEarlierThemes ==
    (plan.pc = "await" /\ gb[1].picked) =>
        \A k \in DOMAIN plan.results :
            plan.results[k].error = "" =>
                plan.results[k].theme \in Range(gb[1].hint)

\* C3: a generate_batch that returns its summary has stored exactly count
\* problems, dated start, start+1, ... with the difficulties of
\* get_difficulty_sequence(count), and the theme record
\* (theme, start, start+count-1, count).
C3_SuccessStoresCount ==
    \A w \in Workers :
        gb[w].pc = "done" =>
            LET r == gb[w]
            IN  /\ Len(r.built) = r.count
                /\ \A i \in DOMAIN r.built :
                     /\ r.built[i] \in Range(problems)
                     /\ r.built[i].id = strftime(r.start_date + (i - 1))
                     /\ r.built[i].difficulty = get_difficulty_sequence(r.count)[i]
                /\ [theme |-> r.chosen, start_date |-> strftime(r.start_date),
                    end_date |-> strftime(r.start_date + (r.count - 1)),
                    count |-> r.count] \in Range(themes)

Successes(rs) == Cardinality({k \in DOMAIN rs : rs[k].error = ""})

RECURSIVE SumWritten(_)
SumWritten(rs) == IF rs = <<>> THEN 0 ELSE rs[1].written + SumWritten(Tail(rs))

LegacyCount == Cardinality({i \in DOMAIN themes : themes[i].theme = "Legacy"})

\* C5: a plan never ends without its result list; the list grows by one entry
\* per batch, in order, each carrying its batch index; when the plan returns
\* there is one entry per submitted batch; and what earlier batches wrote is
\* still stored.
C5_EveryBatchReported ==
    /\ plan.pc # "crashed"
    /\ plan.pc \in {"loop", "await", "returned"} =>
         /\ Len(plan.results) = plan.i
         /\ \A k \in DOMAIN plan.results : plan.results[k].batch = k
    /\ plan.pc = "returned" => Len(plan.results) = plan.n
    /\ plan.pc \in {"loop", "returned"} => Len(problems) = SumWritten(plan.results)

\* C6: when a batch of a plan stored its problems and the theme record's
\* insert then failed, the batch's entry is an error entry, the problems it
\* stored are still in the store, and no theme record of the batch exists
\* (the store holds one theme record per summary).
C6_ThemeFailureKeepsProblems ==
    (/\ plan.pc \in {"loop", "returned"}
     /\ gb[1].pc = "failed" /\ gb[1].err = "theme_insert")
        => /\ plan.results[plan.i].error = "theme_insert"
           /\ plan.results[plan.i].problems_created = 0
           /\ \A i \in DOMAIN gb[1].built : gb[1].built[i] \in Range(problems)
           /\ theme_record(gb[1]) \notin Range(themes)
           /\ Len(themes) = LegacyCount + Successes(plan.results)

\* C6 witness: a plan returned after a batch that stored problems and failed
\* on its theme record
C6_Witness ==
    /\ plan.pc = "returned"
    /\ gb[1].pc = "failed" /\ gb[1].err = "theme_insert"
    /\ Len(gb[1].built) >= 1
    /\ Len(problems) >= 1

\* C7: the next open date shown is the current UTC date when the store is
\* empty, and the day after the greatest stored date_key otherwise (so it is
\* later than every stored date_key).
C7_NextOpenAfterGreatest ==
    rd.op = "generate_page" =>
        IF problems = <<>> THEN rd.next_open = rd.today
        ELSE /\ rd.next_open = strptime(MaxKey(problems)) + 1
             /\ \A k \in Ids(problems) : KeyLess(k, strftime(rd.next_open))

\* the stored dates are one run of consecutive days
Contiguous(ps) ==
    \A a, b \in Ids(ps) :
        \A n \in 0..Horizon :
            (KeyLess(a, strftime(n)) /\ KeyLess(strftime(n), b)) =>
                strftime(n) \in Ids(ps)

\* C8: from an empty store, after any generate_batch calls without a start
\* date made one after another, the stored dates are consecutive days, and
\* the start date a call resolves on a non-empty store is the day after the
\* last stored date.
C8_GapFreeAppend ==
    /\ Contiguous(problems)
    /\ (gb[1].pc \in {"theme", "generate"} /\ problems # <<>>) =>
         gb[1].start_date = strptime(MaxKey(problems)) + 1

\* C9: a request for today's problem that finds no problem for today answers
\* with a fallback taken from the store whenever the store is not empty; it
\* answers not-found only when the store is empty.
C9_FallbackUnlessEmpty ==
    (rd.op \in {"today_legacy", "today_api"} /\ ~Has(problems, strftime(rd.today)))
        => /\ problems # <<>> =>
                (rd.status = 200 /\ rd.fallback /\ rd.body \in Range(problems))
           /\ rd.status = 404 => problems = <<>>

\* C10: a fallback answer is the stored problem at position
\* SHA-256(today_key) mod len(all_problems) of the store's natural order,
\* whatever requests were served before.
C10_FallbackByDigest ==
    (rd.op = "today_legacy" /\ rd.fallback)
        => rd.body = problems[(date_hash(strftime(rd.today)) % Len(problems)) + 1]

\* C10 witness: a fallback that is not the first of several stored problems
C10_Witness ==
    /\ rd.op = "today_legacy" /\ rd.fallback
    /\ Len(problems) >= 2
    /\ rd.body # problems[1]

C12_FutureForbidden ==
    rd.op = "by_date" =>
        /\ (strptime(rd.date) # ValueError /\ strptime(rd.date) > rd.today)
              => (rd.status = 403 /\ rd.body = NoProblem)
        /\ (strptime(rd.date) # ValueError /\ strptime(rd.date) <= rd.today)
              => rd.status # 403

\* C12 witness: a problem is stored for tomorrow and the lookup for it was
\* refused
C12_Witness ==
    /\ rd.op = "by_date" /\ rd.status = 403
    /\ Has(problems, rd.date)

\* C13: the calendar listing of a month holds no problem dated after today,
\* holds every stored problem of that month dated today or before, and is
\* sorted by date ascending.
C13_CalendarPastOnly ==
    (rd.op = "calendar" /\ rd.error = "") =>
        LET today_key == strftime(rd.today)
        IN  /\ \A i \in DOMAIN rd.days : ~KeyLess(today_key, rd.days[i].id)
            /\ \A p \in Range(problems) :
                 (p.id[1] = rd.month[1] /\ p.id[2] = rd.month[2]
                    /\ KeyLeq(p.id, today_key)) => p \in Range(rd.days)
            /\ \A i, j \in DOMAIN rd.days :
                 i < j => KeyLess(rd.days[i].id, rd.days[j].id)

\* C13 witness: the month holds a problem of today or before and one after
\* today, and the listing shows the first only
C13_Witness ==
    /\ rd.op = "calendar" /\ Len(rd.days) >= 1
    /\ \E p \in Range(problems) :
         /\ p.id[1] = rd.month[1] /\ p.id[2] = rd.month[2]
         /\ KeyLess(strftime(rd.today), p.id)

\* C14: the theme listing, with or without a month filter, returns no theme
\* record whose start_date is after today.
C14_ThemesPastOnly ==
    rd.op = "themes" =>
        \A i \in DOMAIN rd.listed :
            ~KeyLess(strftime(rd.today), rd.listed[i].start_date)

\* C14 witness: a theme record that starts after today is stored, and the
\* listing returned another one
C14_Witness ==
    /\ rd.op = "themes" /\ Len(rd.listed) >= 1
    /\ \E t \in Range(themes) : KeyLess(strftime(rd.today), t.start_date)

\* the positions of the stored theme records whose range holds date_key
Covering(date_key) ==
    {i \in DOMAIN themes :
        KeyLeq(themes[i].start_date, date_key) /\ KeyLeq(date_key, themes[i].end_date)}

\* C15: for every day of a rendered month, the theme found is the most
\* recently generated stored theme record whose [start_date, end_date] holds
\* the day, and none is found only when no stored record holds it.
C15_FirstCoveringNewestFirst ==
    (rd.op = "admin_calendar" /\ Len(rd.listed) = Len(themes)) =>
        \A day \in DOMAIN rd.cells :
            LET hits == Covering(<<rd.month[1], rd.month[2], day>>)
            IN  IF hits = {} THEN rd.cells[day].theme = ""
                ELSE rd.cells[day].theme =
                       themes[CHOOSE i \in hits : \A j \in hits : j <= i].theme

\* C16: a theme name keeps its color from one calendar render to the next
\* (also when a generate_batch added a theme in between), and every color is
\* one of the palette's.
C16_ColorStable ==
    [][(rd.op = "admin_calendar" /\ rd'.op = "admin_calendar") =>
          /\ \A name \in DOMAIN rd.colors \cap DOMAIN rd'.colors :
                rd'.colors[name] = rd.colors[name]
          /\ \A name \in DOMAIN rd'.colors : rd'.colors[name] \in Range(THEME_COLORS)]_vars

\* C17: get_difficulty_sequence(count) has count entries, the i-th (from 0)
\* being entry i mod 7 of Easy, Easy, Medium, Medium, Hard, Hard, Medium; the
\* sequence of 14 is the sequence of 7 twice; and every document a batch
\* builds has the difficulty of its position.
C17_DifficultyCycle ==
    gb[1].pc # "idle" =>
        LET c == gb[1].count
            s == get_difficulty_sequence(c)
            cycle == <<"Easy", "Easy", "Medium", "Medium", "Hard", "Hard", "Medium">>
        IN  /\ Len(s) = c
            /\ \A i \in 0..(c - 1) : s[i + 1] = cycle[(i % 7) + 1]
            /\ c = 14 => s = get_difficulty_sequence(7) \o get_difficulty_sequence(7)
            /\ \A i \in DOMAIN gb[1].built :
                 gb[1].built[i].difficulty = cycle[((i - 1) % 7) + 1]

\* C17 witness: a batch of 14 was built and stored, its 8th problem Easy
C17_Witness ==
    /\ gb[1].pc = "done" /\ gb[1].count = 14
    /\ Len(problems) = 14
    /\ problems[8].difficulty = "Easy"

\* C18: the stored theme records cover pairwise disjoint date ranges, after
\* any generate_batch calls.
C18_ThemeRangesDisjoint ==
    \A i, j \in DOMAIN themes :
        i # j => \/ KeyLess(themes[i].end_date, themes[j].start_date)
                 \/ KeyLess(themes[j].end_date, themes[i].start_date)

\* the steps of generate_batch in their order: a step may be passed over (an
\* explicit start date, a forced theme), never taken out of order, and every
\* step before the end may fail
StepOrder ==
    {<<"idle", "slot">>, <<"idle", "theme">>, <<"idle", "generate">>,
     <<"slot", "theme">>, <<"slot", "generate">>, <<"slot", "failed">>,
     <<"theme", "generate">>, <<"theme", "failed">>,
     <<"generate", "insert">>, <<"generate", "failed">>,
     <<"insert", "insert">>, <<"insert", "theme_insert">>, <<"insert", "failed">>,
     <<"theme_insert", "done">>, <<"theme_insert", "failed">>}

\* the step a failure is recorded for
FailedStep(pc, err) ==
    \/ pc = err
    \/ pc = "generate" /\ err = "build"

\* C19: every generate_batch call takes its steps in the order slot, theme,
\* generate, persist (problems, then the theme record), done; a failure
\* records the step it left; no step before the generator's answer writes to
\* either collection, so a call that failed in slot, theme or generation has
\* inserted nothing.
C19_StepsInOrder ==
    /\ [](\A w \in Workers :
            (gb[w].pc = "failed" /\ gb[w].err \in {"slot", "theme", "generate", "build"})
               => (gb[w].ins = 0 /\ gb[w].built = <<>>))
    /\ [][\A w \in Workers :
            gb'[w] # gb[w] =>
               /\ <<gb[w].pc, gb'[w].pc>> \in StepOrder
               /\ gb'[w].pc = "failed" => FailedStep(gb[w].pc, gb'[w].err)
               /\ gb[w].pc \in {"idle", "slot", "theme", "generate"} =>
                    (problems' = problems /\ themes' = themes)]_vars

\* C19 witness: one call went through every step and returned, the other
\* failed at the picker, and the store holds the first call's documents only
C19_Witness ==
    \E w, v \in Workers :
        /\ gb[w].pc = "done" /\ gb[w].picked
        /\ gb[v].pc = "failed" /\ gb[v].err = "theme"
        /\ problems = gb[w].built
        /\ Len(themes) = 1

\* C20: a move whose target holds a problem when the move looks or inserts
\* ends with an error (409 at the check, the store's DuplicateKey at the
\* insert) and every move that ends with an error leaves the store as it was;
\* a move that completes leaves the problem's content under the target, no
\* problem under the source, and as many problems as before it (its insert
\* added one, its delete removed one). Two moves and a generate_batch aimed at
\* the same target may interleave in any way.
C20_MoveOrConflict ==
    [][\A m \in Movers :
          mv'[m] # mv[m] =>
             LET r == mv[m]
             IN  /\ (r.pc \in {"check", "insert"} /\ Has(problems, r.to))
                       => mv'[m].pc \in {"rejected", "failed"}
                 /\ mv'[m].pc \in {"rejected", "failed"}
                       => (problems' = problems /\ mv'[m].status \in {400, 404, 409, 500})
                 /\ (r.pc = "insert" /\ mv'[m].pc = "delete")
                       => Len(problems') = Len(problems) + 1
                 /\ mv'[m].pc = "done"
                       => /\ Has(problems', r.to)
                          /\ Get(problems', r.to) = Rekeyed(r.problem, r.to)
                          /\ r.problem \in Range(problems)
                          /\ ~Has(problems', r.from)
                          /\ Len(problems') = Len(problems) - 1
                          /\ C1_UniqueDateKey']_vars

\* C20 witness: both handlers raced for the free target; one completed its
\* move and the other's insert was refused
C20_Witness ==
    \E m, o \in Movers :
        /\ mv[m].pc = "done" /\ mv[o].pc = "failed" /\ mv[o].status = 500
        /\ mv[m].to = MoveTarget /\ mv[o].to = MoveTarget
        /\ mv[m].from # mv[o].from
        /\ Has(problems, MoveTarget) /\ ~Has(problems, mv[m].from)
        /\ Has(problems, mv[o].from)

\* C21: with a month filter, the theme listing returns every stored theme
\* record that has started by today and whose [start_date, end_date] has a
\* day in the month, also one that started in an earlier month.
C21_MonthFilterActiveThemes ==
    (rd.op = "themes" /\ rd.month # NoMonth /\ rd.month[2] \in 1..12) =>
        \A t \in Range(themes) :
            (/\ KeyLeq(t.start_date, strftime(rd.today))
             /\ KeyLeq(t.start_date, <<rd.month[1], rd.month[2], 31>>)
             /\ KeyLeq(<<rd.month[1], rd.month[2], 1>>, t.end_date))
                => t \in Range(rd.listed)

\* the protected requests of a client that were handed on at a time in
\* [from, from + window_seconds)
ForwardedIn(c, from) ==
    {i \in DOMAIN rl.forwarded[c] :
        rl.forwarded[c][i] >= from /\ rl.forwarded[c][i] < from + window_seconds}

\* C22: per client at most rate_limit protected requests are handed on in
\* any window_seconds seconds; a request on a path that is not protected is
\* handed on and leaves the recorded requests alone; a rejected request is
\* not recorded; and a request of a client whose oldest recorded request is
\* more than window_seconds old is handed on.
C22_WindowHoldsLimit ==
    /\ [](\A c \in Clients, from \in 0..MaxTime :
            Cardinality(ForwardedIn(c, from)) <= rate_limit)
    /\ [][LET r == rl'.last
              c == r.client_ip
          IN  /\ ~_is_protected(r.path) =>
                    /\ r.status = 200
                    /\ rl'.requests = rl.requests
                    /\ rl'.forwarded = rl.forwarded
              /\ r.status = 429 =>
                    /\ rl'.forwarded = rl.forwarded
                    /\ \A k \in Clients : Len(rl'.requests[k]) <= Len(rl.requests[k])
              /\ (/\ _is_protected(r.path)
                  /\ rl.requests[c] # <<>>
                  /\ rl'.now - rl.requests[c][1] > window_seconds)
                    => r.status = 200 /\ rl'.forwarded[c] = Append(rl.forwarded[c], rl'.now)
         ]_vars

\* a client is rejected again after it had been rejected, had waited and had
\* been admitted
C22_Witness ==
    /\ rl.last.status = 429
    /\ Len(rl.forwarded[rl.last.client_ip]) > rate_limit

\* C23: the theme record of a generate_batch that wrote one has a count equal
\* to the number of days from its start_date to its end_date and to the
\* number of problems the batch stored, and every date of that range holds a
\* problem the batch stored, however many drafts the generator returned.
C23_ThemeCountIsRangeLength ==
    \A w \in Workers :
        gb[w].pc = "done" =>
            LET r == gb[w]
                t == theme_record(r)
                first == strptime(t.start_date)
                last == strptime(t.end_date)
            IN  /\ t \in Range(themes)
                /\ t.count = (last - first) + 1
                /\ t.count = r.ins
                /\ \A d \in first..last :
                     /\ strftime(d) \in BuiltIds(r)
                     /\ strftime(d) \in Ids(problems)

\* C24: every stored problem has a date_key that spells a calendar date,
\* after any generate_batch, form move, AJAX move, edit-save and delete.
C24_StoredKeysAreDates ==
    \A i \in DOMAIN problems : IsValidKey(problems[i].id)

\* C25: the total_created a plan returns is the number of problems the plan
\* added to the store, whichever of its batches succeeded or failed.
C25_TotalCreatedIsAdded ==
    plan.pc = "returned" =>
        /\ plan.total = SumWritten(plan.results)
        /\ plan.total = Len(problems)

====
